---- MODULE Spec2Model ----
(***************************************************************************)
(* Model of keithley2600/Keithley2600.py: the Keithley2600 session object  *)
(* over a message-based transport (pyvisa Resource).  Every method of the  *)
(* class is an operator from a call state to a call state; every public    *)
(* operation is one action.  Text is modelled as sequences of one-char     *)
(* strings where the code parses it, and as strings where the code only    *)
(* formats it.                                                             *)
(***************************************************************************)
EXTENDS Integers, Sequences, FiniteSets, TLC

\* Largest index of a transport call at which a failure may be injected.
MaxFail == 9
\* Largest plain integer passed as the argument of a setter.
MaxIntArg == 2

(***************************************************************************)
(* Python values                                                           *)
(***************************************************************************)
None == [t |-> "none"]
B(b) == [t |-> "bool", b |-> b]
I(n) == [t |-> "int", n |-> n]
\* a float, kept as the decimal m * 10^e with m not divisible by 10
F(m, e) == [t |-> "float", m |-> m, e |-> e]
Str(s) == [t |-> "str", s |-> s]
Tuple(a, b) == [t |-> "tuple", a |-> a, b |-> b]

RECURSIVE Pow10(_)
Pow10(k) == IF k <= 0 THEN 1 ELSE 10 * Pow10(k - 1)

Abs(n) == IF n < 0 THEN -n ELSE n

RECURSIVE Norm(_, _)
Norm(m, e) ==
    IF m = 0 THEN F(0, 0)
    ELSE IF m % 10 = 0 THEN Norm(m \div 10, e + 1)
    ELSE F(m, e)

\* truth value of a Python object
Truthy(v) ==
    CASE v.t = "bool" -> v.b
      [] v.t = "int" -> v.n # 0
      [] v.t = "float" -> v.m # 0
      [] v.t = "str" -> v.s # <<>>
      [] OTHER -> FALSE

\* int(x): truncation towards zero
PyInt(v) ==
    CASE v.t = "bool" -> IF v.b THEN 1 ELSE 0
      [] v.t = "int" -> v.n
      [] v.t = "float" ->
            IF v.e >= 0 THEN v.m * Pow10(v.e)
            ELSE IF v.m < 0 THEN -(Abs(v.m) \div Pow10(-v.e))
            ELSE v.m \div Pow10(-v.e)

DigitStr(d) ==
    CASE d = 0 -> "0" [] d = 1 -> "1" [] d = 2 -> "2" [] d = 3 -> "3"
      [] d = 4 -> "4" [] d = 5 -> "5" [] d = 6 -> "6" [] d = 7 -> "7"
      [] d = 8 -> "8" [] d = 9 -> "9"

RECURSIVE NatStr(_)
NatStr(n) == IF n < 10 THEN DigitStr(n) ELSE NatStr(n \div 10) \o DigitStr(n % 10)

IntStr(n) == IF n < 0 THEN "-" \o NatStr(-n) ELSE NatStr(n)

\* n written with exactly w digits, zero padded on the left
RECURSIVE PadStr(_, _)
PadStr(n, w) == IF w <= 0 THEN "" ELSE PadStr(n \div 10, w - 1) \o DigitStr(n % 10)

\* repr of a float in positional notation (decimal exponents -4 .. 15)
FloatStr(v) ==
    LET sign == IF v.m < 0 THEN "-" ELSE ""
        a == Abs(v.m)
    IN  IF v.e >= 0 THEN sign \o NatStr(a * Pow10(v.e)) \o ".0"
        ELSE sign \o NatStr(a \div Pow10(-v.e)) \o "."
                  \o PadStr(a % Pow10(-v.e), -v.e)

\* f'{x}': the str() of a Python value
PyFormat(v) ==
    CASE v.t = "bool" -> IF v.b THEN "True" ELSE "False"
      [] v.t = "int" -> IntStr(v.n)
      [] v.t = "float" -> FloatStr(v)

(***************************************************************************)
(* Response text: str.strip, str.split, float                              *)
(***************************************************************************)
Whitespace == {" ", "\n", "\t", "\r"}

RECURSIVE LStrip(_)
LStrip(s) == IF s # <<>> /\ Head(s) \in Whitespace THEN LStrip(Tail(s)) ELSE s

RECURSIVE RStrip(_)
RStrip(s) ==
    IF s # <<>> /\ s[Len(s)] \in Whitespace THEN RStrip(SubSeq(s, 1, Len(s) - 1))
    ELSE s

strip(s) == RStrip(LStrip(s))

\* s.split(sep): the list of the pieces of s between occurrences of sep
RECURSIVE SplitFrom(_, _, _)
SplitFrom(s, sep, cur) ==
    IF s = <<>> THEN <<cur>>
    ELSE IF Head(s) = sep THEN <<cur>> \o SplitFrom(Tail(s), sep, <<>>)
    ELSE SplitFrom(Tail(s), sep, Append(cur, Head(s)))

split(s, sep) == SplitFrom(s, sep, <<>>)

DigitChars == {"0", "1", "2", "3", "4", "5", "6", "7", "8", "9"}

DigitVal(c) ==
    CASE c = "0" -> 0 [] c = "1" -> 1 [] c = "2" -> 2 [] c = "3" -> 3
      [] c = "4" -> 4 [] c = "5" -> 5 [] c = "6" -> 6 [] c = "7" -> 7
      [] c = "8" -> 8 [] c = "9" -> 9

\* The scan of a decimal literal: where in the literal the scan is (part),
\* the digits read so far as a number (mant), how many of them there are (nd)
\* and how many after the point (nf), and the same for the exponent.
ScanStart ==
    [part |-> "start", neg |-> FALSE, mant |-> 0, nd |-> 0, nf |-> 0,
     eneg |-> FALSE, expo |-> 0, ne |-> 0]

ScanDigit(st, c) ==
    CASE st.part \in {"start", "int"} ->
            [st EXCEPT !.part = "int", !.mant = 10 * @ + DigitVal(c), !.nd = @ + 1]
      [] st.part = "frac" ->
            [st EXCEPT !.mant = 10 * @ + DigitVal(c), !.nd = @ + 1, !.nf = @ + 1]
      [] st.part \in {"esign", "exp"} ->
            [st EXCEPT !.part = "exp", !.expo = 10 * @ + DigitVal(c), !.ne = @ + 1]
      [] OTHER -> [st EXCEPT !.part = "bad"]

ScanChar(st, c) ==
    CASE c \in DigitChars -> ScanDigit(st, c)
      [] c \in {"+", "-"} /\ st.part = "start" /\ st.nd = 0 /\ ~st.neg ->
            [st EXCEPT !.part = "int", !.neg = (c = "-")]
      [] c \in {"+", "-"} /\ st.part = "esign" ->
            [st EXCEPT !.part = "exp", !.eneg = (c = "-")]
      [] c = "." /\ st.part \in {"start", "int"} -> [st EXCEPT !.part = "frac"]
      [] c \in {"e", "E"} /\ st.part \in {"int", "frac"} /\ st.nd > 0 ->
            [st EXCEPT !.part = "esign"]
      [] OTHER -> [st EXCEPT !.part = "bad"]

RECURSIVE Scan(_, _)
Scan(s, st) == IF s = <<>> THEN st ELSE Scan(Tail(s), ScanChar(st, Head(s)))

ScanValid(st) ==
    \/ st.part \in {"int", "frac"} /\ st.nd > 0
    \/ st.part = "exp" /\ st.ne > 0

ScanValue(st) ==
    Norm(IF st.neg THEN -st.mant ELSE st.mant,
         (IF st.eneg THEN -st.expo ELSE st.expo) - st.nf)

FloatOf(st) ==
    IF ScanValid(st) THEN [ok |-> TRUE, v |-> ScanValue(st)]
    ELSE [ok |-> FALSE, v |-> None]

\* float(text): [ok |-> FALSE] stands for the ValueError of a text that is
\* no decimal literal; surrounding whitespace is ignored.
float(s) == FloatOf(Scan(strip(s), ScanStart))

(***************************************************************************)
(* The transport (self.smu) as one call of a method sees it: the calls     *)
(* issued so far, the exception raised if any, the value to return.  The   *)
(* environment of the call fixes which transport call fails (failAt, 0 for *)
(* none) and the lines the instrument answers (feed).                      *)
(***************************************************************************)
Start(failAt, feed) ==
    [calls |-> <<>>, n |-> 0, nr |-> 0, err |-> "none", ret |-> None,
     resp |-> <<>>, failAt |-> failAt, feed |-> feed]

Event(kind, cmd, ok, resp) == [kind |-> kind, cmd |-> cmd, ok |-> ok, resp |-> resp]

\* self.smu.write(cmd)
TransportWrite(s, cmd) ==
    IF s.err # "none" THEN s
    ELSE IF s.n + 1 = s.failAt
         THEN [s EXCEPT !.calls = Append(@, Event("write", cmd, FALSE, <<>>)),
                        !.n = @ + 1, !.err = "TransportError"]
         ELSE [s EXCEPT !.calls = Append(@, Event("write", cmd, TRUE, <<>>)),
                        !.n = @ + 1]

\* TransportReceive that tries once more when the call fails
TransportReceiveRetry(s, kind, cmd) ==
    IF s.err # "none" THEN s
    ELSE LET line == s.feed[s.nr + 1]
             failed == IF s.n + 1 = s.failAt
                       THEN <<Event(kind, cmd, FALSE, <<>>)>> ELSE <<>>
         IN  [s EXCEPT !.calls = @ \o failed \o <<Event(kind, cmd, TRUE, line)>>,
                       !.n = @ + 1 + Len(failed), !.nr = @ + 1, !.resp = line]

\* a call that blocks for one line of response
TransportReceive(s, kind, cmd) ==
    IF s.err # "none" THEN s
    ELSE IF s.n + 1 = s.failAt
         THEN [s EXCEPT !.calls = Append(@, Event(kind, cmd, FALSE, <<>>)),
                        !.n = @ + 1, !.err = "TransportError"]
         ELSE LET line == s.feed[s.nr + 1]
              IN  [s EXCEPT !.calls = Append(@, Event(kind, cmd, TRUE, line)),
                            !.n = @ + 1, !.nr = @ + 1, !.resp = line]

\* self.smu.query(cmd)
TransportQuery(s, cmd) == TransportReceive(s, "query", cmd)

\* self.smu.read()
TransportRead(s) == TransportReceive(s, "read", "")

\* self.smu.close()
TransportClose(s) ==
    IF s.err # "none" THEN s
    ELSE IF s.n + 1 = s.failAt
         THEN [s EXCEPT !.calls = Append(@, Event("close", "", FALSE, <<>>)),
                        !.n = @ + 1, !.err = "TransportError"]
         ELSE [s EXCEPT !.calls = Append(@, Event("close", "", TRUE, <<>>)),
                        !.n = @ + 1]

\* time.sleep(v): a negative length raises ValueError
Sleep(s, v) ==
    IF s.err # "none" THEN s
    ELSE IF v.m < 0 THEN [s EXCEPT !.err = "ValueError"]
    ELSE [s EXCEPT !.calls = Append(@, Event("sleep", PyFormat(v), TRUE, <<>>))]

Return(s, v) == IF s.err # "none" THEN s ELSE [s EXCEPT !.ret = v]

Raise(s, e) == IF s.err # "none" THEN s ELSE [s EXCEPT !.err = e]

\* return float(text)
ReturnFloat(s, text) ==
    IF s.err # "none" THEN s
    ELSE LET f == float(text)
         IN  IF f.ok THEN Return(s, f.v) ELSE Raise(s, "ValueError")

\* ReturnFlag without the int(): true for any nonzero number
ReturnFlagNoInt(s, text) ==
    IF s.err # "none" THEN s
    ELSE LET f == float(text)
         IN  IF f.ok THEN Return(s, B(f.v.m # 0)) ELSE Raise(s, "ValueError")

\* return bool(int(float(text)))
ReturnFlag(s, text) ==
    IF s.err # "none" THEN s
    ELSE LET f == float(text)
         IN  IF f.ok THEN Return(s, B(PyInt(f.v) # 0)) ELSE Raise(s, "ValueError")

(***************************************************************************)
(* Methods of Keithley2600                                                 *)
(***************************************************************************)
reset_device(s) == TransportWrite(s, "smua.reset()")

device_id(s) ==
    LET s1 == TransportWrite(s, "print(smua.idn())")
        s2 == TransportRead(s1)
    IN  Return(s2, Str(s2.resp))

measure_resistance(s) ==
    LET s1 == TransportQuery(s, "print(smua.measure.r())")
    IN  ReturnFloat(s1, strip(s1.resp))

measure_power(s) ==
    LET s1 == TransportQuery(s, "print(smua.measure.p())")
    IN  ReturnFloat(s1, strip(s1.resp))

get_output(s) ==
    LET s1 == TransportQuery(s, "print(smua.source.output)")
    IN  ReturnFlag(s1, strip(s1.resp))

set_output(s, flag) == TransportWrite(s, "smua.source.output = " \o IntStr(PyInt(flag)))

get_source_function(s) ==
    LET s1 == TransportQuery(s, "print(smua.source.func)")
    IN  Return(s1, Str(s1.resp))

set_source_function(s, func) == TransportWrite(s, "smua.source.func = " \o PyFormat(func))

get_nplc(s) ==
    LET s1 == TransportQuery(s, "print(smua.measure.nplc)")
    IN  ReturnFloat(s1, strip(s1.resp))

set_nplc(s, NPLC) == TransportWrite(s, "smua.measure.nplc = " \o PyFormat(NPLC))

get_delay(s) ==
    LET s1 == TransportQuery(s, "print(smua.measure.delay)")
    IN  ReturnFloat(s1, strip(s1.resp))

set_delay(s, delay) == TransportWrite(s, "smua.measure.delay = " \o PyFormat(delay))

get_range_i(s) ==
    LET s1 == TransportQuery(s, "print(smua.measure.rangei)")
    IN  ReturnFloat(s1, strip(s1.resp))

set_range_i(s, i_range) == TransportWrite(s, "smua.measure.rangei = " \o PyFormat(i_range))

get_range_v(s) ==
    LET s1 == TransportQuery(s, "print(smua.measure.rangev)")
    IN  ReturnFloat(s1, strip(s1.resp))

set_range_v(s, v_range) == TransportWrite(s, "smua.measure.rangev = " \o PyFormat(v_range))

get_autorange_i(s) ==
    LET s1 == TransportQuery(s, "print(smua.measure.autorangei)")
    IN  ReturnFlag(s1, strip(s1.resp))

set_autorange_i(s, autorange) ==
    TransportWrite(s, "smua.measure.autorangei = " \o PyFormat(autorange))

get_autorange_v(s) ==
    LET s1 == TransportQuery(s, "print(smua.measure.autorangev)")
    IN  ReturnFlag(s1, strip(s1.resp))

set_autorange_v(s, autorange) ==
    TransportWrite(s, "smua.measure.autorangev = " \o PyFormat(autorange))

\* get_level_v answering from a value kept in the session
get_level_v_cached(s) == Return(s, F(0, 0))

get_level_v(s) ==
    LET s1 == TransportQuery(s, "print(smua.source.levelv)")
    IN  ReturnFloat(s1, strip(s1.resp))

set_level_v(s, v_level) == TransportWrite(s, "smua.source.levelv = " \o PyFormat(v_level))

get_level_i(s) ==
    LET s1 == TransportQuery(s, "print(smua.source.leveli)")
    IN  ReturnFloat(s1, strip(s1.resp))

set_level_i(s, i_level) == TransportWrite(s, "smua.source.leveli = " \o PyFormat(i_level))

get_limit_i(s) ==
    LET s1 == TransportQuery(s, "print(smua.source.limiti)")
    IN  ReturnFloat(s1, strip(s1.resp))

set_limit_i(s, i_limit) == TransportWrite(s, "smua.source.limiti = " \o PyFormat(i_limit))

get_limit_v(s) ==
    LET s1 == TransportQuery(s, "print(smua.source.limitv)")
    IN  ReturnFloat(s1, strip(s1.resp))

set_limit_v(s, v_limit) == TransportWrite(s, "smua.source.limitv = " \o PyFormat(v_limit))

\* self.delay inside measure_iv is the property: it queries the instrument
measure_iv(s) ==
    LET s1 == TransportWrite(s, "ireading, vreading = smua.measure.iv()")
        s2 == get_delay(s1)
        s3 == Sleep(s2, s2.ret)
        s4 == TransportQuery(s3, "printnumber(ireading,vreading)")
        response == split(s4.resp, ",")
        i == float(response[1])
        v == float(response[2])
    IN  IF s4.err # "none" THEN s4
        ELSE IF ~i.ok THEN Raise(s4, "ValueError")
        ELSE IF Len(response) < 2 THEN Raise(s4, "IndexError")
        ELSE IF ~v.ok THEN Raise(s4, "ValueError")
        ELSE Return(s4, Tuple(i.v, v.v))

\* default_setup leaving the output enabled
default_setup_on(s) ==
    LET s1 == set_source_function(s, I(1))
        s2 == set_level_v(s1, I(0))
        s3 == set_autorange_i(s2, I(1))
        s4 == set_autorange_v(s3, I(1))
    IN  set_output(s4, B(TRUE))

default_setup(s) ==
    LET s1 == set_source_function(s, I(1))
        s2 == set_level_v(s1, I(0))
        s3 == set_autorange_i(s2, I(1))
        s4 == set_autorange_v(s3, I(1))
    IN  set_output(s4, B(FALSE))

setup_for_resistance_measurement(s) ==
    LET s0 == TransportWrite(s, "smua.measure.r(smua.nvbuffer1)")
        s1 == reset_device(s0)
        s2 == set_source_function(s1, I(0))
        s3 == set_level_i(s2, F(1, -3))
        s4 == set_autorange_v(s3, I(1))
        s5 == set_nplc(s4, I(5))
        s6 == set_delay(s5, F(1, -1))
        s7 == set_range_v(s6, I(20))
    IN  set_range_i(s7, F(1, -3))

setup_for_IV_measurement(s, iLimit, NPLC) ==
    LET s1 == reset_device(s)
        s2 == set_source_function(s1, I(1))
        s3 == set_level_v(s2, I(0))
        s4 == set_autorange_i(s3, I(1))
        s5 == set_autorange_v(s4, I(1))
        s6 == set_limit_i(s5, iLimit)
    IN  set_nplc(s6, NPLC)

\* __init__ configuring before it resets
init_reset_last(s, delay) ==
    LET s1 == default_setup(s)
        s2 == reset_device(s1)
    IN  set_delay(s2, delay)

\* __init__(self, device, delay)
init(s, delay) ==
    LET s1 == reset_device(s)
        s2 == default_setup(s1)
    IN  set_delay(s2, delay)

\* __del__ resetting before it switches the output off
del_reset_first(s) ==
    LET s1 == reset_device(s)
        s2 == set_output(s1, B(FALSE))
    IN  TransportClose(s2)

\* __del__(self)
del(s) ==
    LET s1 == set_output(s, B(FALSE))
        s2 == reset_device(s1)
    IN  TransportClose(s2)

(***************************************************************************)
(* Inputs                                                                  *)
(***************************************************************************)
R_5 == <<"5", ".", "0", "0", "0", "0", "0", "0", "E", "+", "0", "0", "\n">>
R_1 == <<"1", ".", "0", "0", "0", "0", "0", "e", "+", "0", "0", "\n">>
R_0 == <<"0", ".", "0", "0", "0", "0", "0", "e", "+", "0", "0", "\n">>
R_neg == <<"-", "1", ".", "0", "\n">>
R_half == <<"0", ".", "5", "\n">>
R_pair == <<"1", ".", "0", "e", "-", "3", ",", "2", ".", "5">>
R_nil == <<"n", "i", "l", "\n">>
R_empty == <<>>

\* lines the instrument may answer
Responses == {R_5, R_1, R_0, R_neg, R_half, R_pair, R_nil, R_empty}

\* arguments a caller may pass to a setter
Values ==
    {B(TRUE), B(FALSE)} \cup {I(k) : k \in 0..MaxIntArg}
        \cup {F(1, -3), F(1, -1), F(5, -1)}

\* arguments a caller may pass to setup_for_IV_measurement
Limits == {F(1, -3), F(1, -1)}
Cycles == {I(1), I(5)}

Min(a, b) == IF a < b THEN a ELSE b

\* where a failure may be injected into a call that issues s.n transport calls
FailPoints(s) == 0..Min(s.n, MaxFail)

OutputOn == "smua.source.output = 1"

(***************************************************************************)
(* State                                                                   *)
(***************************************************************************)
VARIABLES
    phase,            \* "unborn", "alive", "broken" (__init__ raised), "deleted"
    lastOp,           \* the last method called, with its arguments
    calls,            \* what that call did on the transport, in order
    outcome,          \* how it ended: the exception and the value returned
    priorWrite,       \* for a getter: the value the call before it wrote to the same property
    failedBefore,     \* some call before teardown ended with an exception
    enableRequested,  \* the output setter was called with a truthy flag
    enableSent        \* the write OutputOn was issued

vars == <<phase, lastOp, calls, outcome, priorWrite, failedBefore,
          enableRequested, enableSent>>

Op(name, args) == [name |-> name, args |-> args]

Outcome(s) == [err |-> s.err, ret |-> IF s.err = "none" THEN s.ret ELSE None]

SendsOutputOn(s) ==
    \E k \in 1..Len(s.calls) : s.calls[k].kind = "write" /\ s.calls[k].cmd = OutputOn

\* the effect of one finished call on the record of the session
Record(name, args, s) ==
    /\ lastOp' = Op(name, args)
    /\ calls' = s.calls
    /\ outcome' = Outcome(s)
    /\ enableSent' = (enableSent \/ SendsOutputOn(s))

\* a call of a method on a live session
Call(name, args, s) ==
    /\ Record(name, args, s)
    /\ phase' = phase
    /\ failedBefore' = (failedBefore \/ s.err # "none")

\* the value the previous call wrote, if it was the setter named
Written(setter) ==
    IF lastOp.name = setter /\ outcome.err = "none" THEN lastOp.args[1] ELSE None

Init ==
    /\ phase = "unborn"
    /\ lastOp = Op("none", <<>>)
    /\ calls = <<>>
    /\ outcome = [err |-> "none", ret |-> None]
    /\ priorWrite = None
    /\ failedBefore = FALSE
    /\ enableRequested = FALSE
    /\ enableSent = FALSE

(***************************************************************************)
(* Operations                                                              *)
(***************************************************************************)
\* Keithley2600(device, delay)
Construct ==
    /\ phase = "unborn"
    /\ \E delay \in Values : \E failAt \in FailPoints(init(Start(0, <<>>), delay)) :
          LET s == init(Start(failAt, <<>>), delay)
          IN  /\ Record("__init__", <<delay>>, s)
              /\ phase' = IF s.err = "none" THEN "alive" ELSE "broken"
              /\ failedBefore' = (s.err # "none")
    /\ UNCHANGED <<priorWrite, enableRequested>>

\* the session object is collected
Destroy ==
    /\ phase \in {"alive", "broken"}
    /\ \E failAt \in FailPoints(del(Start(0, <<>>))) :
          Record("__del__", <<>>, del(Start(failAt, <<>>)))
    /\ phase' = "deleted"
    /\ priorWrite' = None
    /\ UNCHANGED <<failedBefore, enableRequested>>

MeasureResistance ==
    /\ phase = "alive"
    /\ \E line \in Responses : \E failAt \in FailPoints(measure_resistance(Start(0, <<line>>))) :
          Call("measure_resistance", <<>>, measure_resistance(Start(failAt, <<line>>)))
    /\ priorWrite' = None
    /\ UNCHANGED enableRequested

MeasurePower ==
    /\ phase = "alive"
    /\ \E line \in Responses : \E failAt \in FailPoints(measure_power(Start(0, <<line>>))) :
          Call("measure_power", <<>>, measure_power(Start(failAt, <<line>>)))
    /\ priorWrite' = None
    /\ UNCHANGED enableRequested

MeasureIv ==
    /\ phase = "alive"
    /\ \E l1 \in Responses, l2 \in Responses :
          \E failAt \in FailPoints(measure_iv(Start(0, <<l1, l2>>))) :
             Call("measure_iv", <<>>, measure_iv(Start(failAt, <<l1, l2>>)))
    /\ priorWrite' = None
    /\ UNCHANGED enableRequested

ResetDevice ==
    /\ phase = "alive"
    /\ \E failAt \in FailPoints(reset_device(Start(0, <<>>))) :
          Call("reset_device", <<>>, reset_device(Start(failAt, <<>>)))
    /\ priorWrite' = None
    /\ UNCHANGED enableRequested

DeviceId ==
    /\ phase = "alive"
    /\ \E line \in Responses : \E failAt \in FailPoints(device_id(Start(0, <<line>>))) :
          Call("device_id", <<>>, device_id(Start(failAt, <<line>>)))
    /\ priorWrite' = None
    /\ UNCHANGED enableRequested

DefaultSetup ==
    /\ phase = "alive"
    /\ \E failAt \in FailPoints(default_setup(Start(0, <<>>))) :
          Call("default_setup", <<>>, default_setup(Start(failAt, <<>>)))
    /\ priorWrite' = None
    /\ UNCHANGED enableRequested

SetupForResistanceMeasurement ==
    /\ phase = "alive"
    /\ \E failAt \in FailPoints(setup_for_resistance_measurement(Start(0, <<>>))) :
          Call("setup_for_resistance_measurement", <<>>,
               setup_for_resistance_measurement(Start(failAt, <<>>)))
    /\ priorWrite' = None
    /\ UNCHANGED enableRequested

SetupForIVMeasurement ==
    /\ phase = "alive"
    /\ \E iLimit \in Limits, NPLC \in Cycles :
          \E failAt \in FailPoints(setup_for_IV_measurement(Start(0, <<>>), iLimit, NPLC)) :
             Call("setup_for_IV_measurement", <<iLimit, NPLC>>,
                  setup_for_IV_measurement(Start(failAt, <<>>), iLimit, NPLC))
    /\ priorWrite' = None
    /\ UNCHANGED enableRequested

GetOutput ==
    /\ phase = "alive"
    /\ \E line \in Responses : \E failAt \in FailPoints(get_output(Start(0, <<line>>))) :
          Call("get_output", <<>>, get_output(Start(failAt, <<line>>)))
    /\ priorWrite' = Written("set_output")
    /\ UNCHANGED enableRequested

SetOutput ==
    /\ phase = "alive"
    /\ \E x \in Values : \E failAt \in FailPoints(set_output(Start(0, <<>>), x)) :
          /\ Call("set_output", <<x>>, set_output(Start(failAt, <<>>), x))
          /\ enableRequested' = (enableRequested \/ Truthy(x))
    /\ priorWrite' = None

GetSourceFunction ==
    /\ phase = "alive"
    /\ \E line \in Responses : \E failAt \in FailPoints(get_source_function(Start(0, <<line>>))) :
          Call("get_source_function", <<>>, get_source_function(Start(failAt, <<line>>)))
    /\ priorWrite' = Written("set_source_function")
    /\ UNCHANGED enableRequested

SetSourceFunction ==
    /\ phase = "alive"
    /\ \E x \in Values : \E failAt \in FailPoints(set_source_function(Start(0, <<>>), x)) :
          Call("set_source_function", <<x>>, set_source_function(Start(failAt, <<>>), x))
    /\ priorWrite' = None
    /\ UNCHANGED enableRequested

GetNplc ==
    /\ phase = "alive"
    /\ \E line \in Responses : \E failAt \in FailPoints(get_nplc(Start(0, <<line>>))) :
          Call("get_nplc", <<>>, get_nplc(Start(failAt, <<line>>)))
    /\ priorWrite' = Written("set_nplc")
    /\ UNCHANGED enableRequested

SetNplc ==
    /\ phase = "alive"
    /\ \E x \in Values : \E failAt \in FailPoints(set_nplc(Start(0, <<>>), x)) :
          Call("set_nplc", <<x>>, set_nplc(Start(failAt, <<>>), x))
    /\ priorWrite' = None
    /\ UNCHANGED enableRequested

GetDelay ==
    /\ phase = "alive"
    /\ \E line \in Responses : \E failAt \in FailPoints(get_delay(Start(0, <<line>>))) :
          Call("get_delay", <<>>, get_delay(Start(failAt, <<line>>)))
    /\ priorWrite' = Written("set_delay")
    /\ UNCHANGED enableRequested

SetDelay ==
    /\ phase = "alive"
    /\ \E x \in Values : \E failAt \in FailPoints(set_delay(Start(0, <<>>), x)) :
          Call("set_delay", <<x>>, set_delay(Start(failAt, <<>>), x))
    /\ priorWrite' = None
    /\ UNCHANGED enableRequested

GetRangeI ==
    /\ phase = "alive"
    /\ \E line \in Responses : \E failAt \in FailPoints(get_range_i(Start(0, <<line>>))) :
          Call("get_range_i", <<>>, get_range_i(Start(failAt, <<line>>)))
    /\ priorWrite' = Written("set_range_i")
    /\ UNCHANGED enableRequested

SetRangeI ==
    /\ phase = "alive"
    /\ \E x \in Values : \E failAt \in FailPoints(set_range_i(Start(0, <<>>), x)) :
          Call("set_range_i", <<x>>, set_range_i(Start(failAt, <<>>), x))
    /\ priorWrite' = None
    /\ UNCHANGED enableRequested

GetRangeV ==
    /\ phase = "alive"
    /\ \E line \in Responses : \E failAt \in FailPoints(get_range_v(Start(0, <<line>>))) :
          Call("get_range_v", <<>>, get_range_v(Start(failAt, <<line>>)))
    /\ priorWrite' = Written("set_range_v")
    /\ UNCHANGED enableRequested

SetRangeV ==
    /\ phase = "alive"
    /\ \E x \in Values : \E failAt \in FailPoints(set_range_v(Start(0, <<>>), x)) :
          Call("set_range_v", <<x>>, set_range_v(Start(failAt, <<>>), x))
    /\ priorWrite' = None
    /\ UNCHANGED enableRequested

GetAutorangeI ==
    /\ phase = "alive"
    /\ \E line \in Responses : \E failAt \in FailPoints(get_autorange_i(Start(0, <<line>>))) :
          Call("get_autorange_i", <<>>, get_autorange_i(Start(failAt, <<line>>)))
    /\ priorWrite' = Written("set_autorange_i")
    /\ UNCHANGED enableRequested

SetAutorangeI ==
    /\ phase = "alive"
    /\ \E x \in Values : \E failAt \in FailPoints(set_autorange_i(Start(0, <<>>), x)) :
          Call("set_autorange_i", <<x>>, set_autorange_i(Start(failAt, <<>>), x))
    /\ priorWrite' = None
    /\ UNCHANGED enableRequested

GetAutorangeV ==
    /\ phase = "alive"
    /\ \E line \in Responses : \E failAt \in FailPoints(get_autorange_v(Start(0, <<line>>))) :
          Call("get_autorange_v", <<>>, get_autorange_v(Start(failAt, <<line>>)))
    /\ priorWrite' = Written("set_autorange_v")
    /\ UNCHANGED enableRequested

SetAutorangeV ==
    /\ phase = "alive"
    /\ \E x \in Values : \E failAt \in FailPoints(set_autorange_v(Start(0, <<>>), x)) :
          Call("set_autorange_v", <<x>>, set_autorange_v(Start(failAt, <<>>), x))
    /\ priorWrite' = None
    /\ UNCHANGED enableRequested

GetLevelV ==
    /\ phase = "alive"
    /\ \E line \in Responses : \E failAt \in FailPoints(get_level_v(Start(0, <<line>>))) :
          Call("get_level_v", <<>>, get_level_v(Start(failAt, <<line>>)))
    /\ priorWrite' = Written("set_level_v")
    /\ UNCHANGED enableRequested

SetLevelV ==
    /\ phase = "alive"
    /\ \E x \in Values : \E failAt \in FailPoints(set_level_v(Start(0, <<>>), x)) :
          Call("set_level_v", <<x>>, set_level_v(Start(failAt, <<>>), x))
    /\ priorWrite' = None
    /\ UNCHANGED enableRequested

GetLevelI ==
    /\ phase = "alive"
    /\ \E line \in Responses : \E failAt \in FailPoints(get_level_i(Start(0, <<line>>))) :
          Call("get_level_i", <<>>, get_level_i(Start(failAt, <<line>>)))
    /\ priorWrite' = Written("set_level_i")
    /\ UNCHANGED enableRequested

SetLevelI ==
    /\ phase = "alive"
    /\ \E x \in Values : \E failAt \in FailPoints(set_level_i(Start(0, <<>>), x)) :
          Call("set_level_i", <<x>>, set_level_i(Start(failAt, <<>>), x))
    /\ priorWrite' = None
    /\ UNCHANGED enableRequested

GetLimitI ==
    /\ phase = "alive"
    /\ \E line \in Responses : \E failAt \in FailPoints(get_limit_i(Start(0, <<line>>))) :
          Call("get_limit_i", <<>>, get_limit_i(Start(failAt, <<line>>)))
    /\ priorWrite' = Written("set_limit_i")
    /\ UNCHANGED enableRequested

SetLimitI ==
    /\ phase = "alive"
    /\ \E x \in Values : \E failAt \in FailPoints(set_limit_i(Start(0, <<>>), x)) :
          Call("set_limit_i", <<x>>, set_limit_i(Start(failAt, <<>>), x))
    /\ priorWrite' = None
    /\ UNCHANGED enableRequested

GetLimitV ==
    /\ phase = "alive"
    /\ \E line \in Responses : \E failAt \in FailPoints(get_limit_v(Start(0, <<line>>))) :
          Call("get_limit_v", <<>>, get_limit_v(Start(failAt, <<line>>)))
    /\ priorWrite' = Written("set_limit_v")
    /\ UNCHANGED enableRequested

SetLimitV ==
    /\ phase = "alive"
    /\ \E x \in Values : \E failAt \in FailPoints(set_limit_v(Start(0, <<>>), x)) :
          Call("set_limit_v", <<x>>, set_limit_v(Start(failAt, <<>>), x))
    /\ priorWrite' = None
    /\ UNCHANGED enableRequested

Next ==
    \/ Construct
    \/ Destroy
    \/ MeasureResistance
    \/ MeasurePower
    \/ MeasureIv
    \/ ResetDevice
    \/ DeviceId
    \/ DefaultSetup
    \/ SetupForResistanceMeasurement
    \/ SetupForIVMeasurement
    \/ GetOutput
    \/ SetOutput
    \/ GetSourceFunction
    \/ SetSourceFunction
    \/ GetNplc
    \/ SetNplc
    \/ GetDelay
    \/ SetDelay
    \/ GetRangeI
    \/ SetRangeI
    \/ GetRangeV
    \/ SetRangeV
    \/ GetAutorangeI
    \/ SetAutorangeI
    \/ GetAutorangeV
    \/ SetAutorangeV
    \/ GetLevelV
    \/ SetLevelV
    \/ GetLevelI
    \/ SetLevelI
    \/ GetLimitI
    \/ SetLimitI
    \/ GetLimitV
    \/ SetLimitV

Spec == Init /\ [][Next]_vars

(***************************************************************************)
(* Properties                                                              *)
(***************************************************************************)
Write(cmd) == [kind |-> "write", cmd |-> cmd]
Query(cmd) == [kind |-> "query", cmd |-> cmd]
Close == [kind |-> "close", cmd |-> ""]

\* what was asked of the transport, without the sleeps, the results and the responses
Sent == [k \in 1..Len(SelectSeq(calls, LAMBDA c : c.kind # "sleep")) |->
            LET c == SelectSeq(calls, LAMBDA d : d.kind # "sleep")[k]
            IN  [kind |-> c.kind, cmd |-> c.cmd]]

IsPrefix(a, b) == Len(a) <= Len(b) /\ a = SubSeq(b, 1, Len(a))

AllOk == \A k \in 1..Len(calls) : calls[k].ok

\* the values of the lines of Responses that are one decimal number
CannedFloat ==
    (R_5 :> F(5, 0)) @@ (R_1 :> F(1, 0)) @@ (R_0 :> F(0, 0))
        @@ (R_neg :> F(-1, 0)) @@ (R_half :> F(5, -1))

\* their values as integers, truncated
CannedInt == (R_5 :> 5) @@ (R_1 :> 1) @@ (R_0 :> 0) @@ (R_neg :> -1) @@ (R_half :> 0)

QueryOf ==
    [get_output |-> "print(smua.source.output)",
     get_source_function |-> "print(smua.source.func)",
     get_nplc |-> "print(smua.measure.nplc)",
     get_delay |-> "print(smua.measure.delay)",
     get_range_i |-> "print(smua.measure.rangei)",
     get_range_v |-> "print(smua.measure.rangev)",
     get_autorange_i |-> "print(smua.measure.autorangei)",
     get_autorange_v |-> "print(smua.measure.autorangev)",
     get_level_v |-> "print(smua.source.levelv)",
     get_level_i |-> "print(smua.source.leveli)",
     get_limit_i |-> "print(smua.source.limiti)",
     get_limit_v |-> "print(smua.source.limitv)"]

PathOf ==
    [set_output |-> "smua.source.output",
     set_source_function |-> "smua.source.func",
     set_nplc |-> "smua.measure.nplc",
     set_delay |-> "smua.measure.delay",
     set_range_i |-> "smua.measure.rangei",
     set_range_v |-> "smua.measure.rangev",
     set_autorange_i |-> "smua.measure.autorangei",
     set_autorange_v |-> "smua.measure.autorangev",
     set_level_v |-> "smua.source.levelv",
     set_level_i |-> "smua.source.leveli",
     set_limit_i |-> "smua.source.limiti",
     set_limit_v |-> "smua.source.limitv"]

Getters == DOMAIN QueryOf
Setters == DOMAIN PathOf
FlagGetters == {"get_output", "get_autorange_i", "get_autorange_v"}
FlagSetters == {"set_output", "set_autorange_i", "set_autorange_v"}
NumberGetters == Getters \ (FlagGetters \cup {"get_source_function"})

OutputOff == Write("smua.source.output = 0")
Reset == Write("smua.reset()")

\* C1: teardown asks the transport for the output-off write, then the reset
\* write, then close, in this order and for nothing else, whatever happened
\* on the session before; it stops only at a call that fails, and when close
\* is called the two writes came right before it.
TeardownOrder ==
    lastOp.name = "__del__" =>
        /\ Len(Sent) >= 1
        /\ IsPrefix(Sent, <<OutputOff, Reset, Close>>)
        /\ (\A k \in 1..Len(calls) : calls[k].ok => k = 3 \/ Len(calls) > k)

TeardownAfterFailure ==
    /\ phase = "deleted"
    /\ failedBefore
    /\ Sent = <<OutputOff, Reset, Close>>
    /\ AllOk

\* C2: whenever teardown has run, close() was called on the transport, also
\* when a write of teardown failed.
ReleaseGuaranteed ==
    lastOp.name = "__del__" => \E k \in 1..Len(calls) : calls[k].kind = "close"

ConstructionWrites(delay) ==
    <<Reset,
      Write("smua.source.func = 1"),
      Write("smua.source.levelv = 0"),
      Write("smua.measure.autorangei = 1"),
      Write("smua.measure.autorangev = 1"),
      Write("smua.source.output = 0"),
      Write("smua.measure.delay = " \o PyFormat(delay))>>

\* C3: construction issues the reset write and then source function = 1,
\* voltage level = 0, current autorange = 1, voltage autorange = 1 and
\* output = 0 in this order; the one write that follows sets the measure
\* delay and leaves that configuration as it is, and no query is issued.
ConstructionSequence ==
    lastOp.name = "__init__" =>
        /\ IsPrefix(Sent, ConstructionWrites(lastOp.args[1]))
        /\ \A k \in 1..Len(calls) : calls[k].kind = "write"
        /\ outcome.err = "none" =>
              /\ Len(Sent) = 7
              /\ SubSeq(Sent, 1, 6) = SubSeq(ConstructionWrites(lastOp.args[1]), 1, 6)

Constructed ==
    /\ lastOp.name = "__init__"
    /\ phase = "alive"
    /\ outcome.err = "none"
    /\ Len(calls) = 7

\* C4: a call of measure_iv that returns has issued the trigger write and
\* then one query, printnumber, and nothing else, and returns the pair of
\* the two tokens of the response to that query.
MeasureIvExact ==
    (lastOp.name = "measure_iv" /\ outcome.err = "none") =>
        /\ Sent = <<Write("ireading, vreading = smua.measure.iv()"),
                    Query("printnumber(ireading,vreading)")>>
        /\ outcome.ret = Tuple(F(1, -3), F(25, -1))

\* C5: a read of a scalar property issues one query, the property's own, and
\* no write, and what it returns is a reading of the response to that query
\* (its number, its flag or its text), whatever was written before.
NoCaching ==
    lastOp.name \in Getters =>
        /\ Sent = <<Query(QueryOf[lastOp.name])>>
        /\ outcome.err = "none" =>
              LET r == calls[1].resp
              IN  \/ outcome.ret = Str(r)
                  \/ /\ r \in DOMAIN CannedFloat
                     /\ outcome.ret \in {CannedFloat[r], B(CannedInt[r] # 0)}

ReadAfterWrite ==
    /\ lastOp.name = "get_level_v"
    /\ priorWrite = I(0)
    /\ calls[1].resp = R_5
    /\ outcome.ret = F(5, 0)

\* C6: every setter issues one write, and a flag-like setter (output,
\* autorange_i, autorange_v) called with a boolean writes its path with 0 for
\* False and 1 for True.
SettersRenderFlags ==
    lastOp.name \in Setters =>
        /\ Len(calls) = 1
        /\ calls[1].kind = "write"
        /\ (lastOp.name \in FlagSetters /\ lastOp.args[1].t = "bool") =>
              calls[1].cmd = PathOf[lastOp.name] \o " = "
                                \o (IF lastOp.args[1].b THEN "1" ELSE "0")

\* the parsed value of a response, as the claim about getters has it
ParsedAs(name, r) ==
    IF name \in FlagGetters THEN B(CannedInt[r] # 0) ELSE CannedFloat[r]

\* C7 as stated: every scalar getter that returns, the source function getter
\* included, returns the parsed value of the response: a number, or for the
\* flag-like properties a boolean, true exactly when the integer value of
\* the token is not zero.
GettersParse ==
    (lastOp.name \in Getters /\ outcome.err = "none") =>
        /\ calls[1].resp \in DOMAIN CannedFloat
        /\ outcome.ret = ParsedAs(lastOp.name, calls[1].resp)

\* C7 as amended: every scalar getter but the source function getter returns
\* the parsed value of the response (a number, or a boolean that is true
\* exactly when the integer value of the token is not zero); the source
\* function getter returns the text of the response as it was received.
GettersParseButSourceFunction ==
    (lastOp.name \in Getters /\ outcome.err = "none") =>
        IF lastOp.name = "get_source_function"
        THEN outcome.ret = Str(calls[1].resp)
        ELSE /\ calls[1].resp \in DOMAIN CannedFloat
             /\ outcome.ret = ParsedAs(lastOp.name, calls[1].resp)

FlagOfFraction ==
    /\ lastOp.name = "get_autorange_i"
    /\ calls[1].resp = R_half
    /\ outcome.ret = B(FALSE)

\* C8: each composite setup routine that completes has issued the reset write
\* and then the writes of its setters in the fixed order, and nothing else.
CompositeSetups ==
    /\ (lastOp.name = "setup_for_IV_measurement" /\ outcome.err = "none") =>
          Sent = <<Reset,
                   Write("smua.source.func = 1"),
                   Write("smua.source.levelv = 0"),
                   Write("smua.measure.autorangei = 1"),
                   Write("smua.measure.autorangev = 1"),
                   Write("smua.source.limiti = " \o PyFormat(lastOp.args[1])),
                   Write("smua.measure.nplc = " \o PyFormat(lastOp.args[2]))>>
    /\ (lastOp.name = "setup_for_resistance_measurement" /\ outcome.err = "none") =>
          Sent = <<Reset,
                   Write("smua.source.func = 0"),
                   Write("smua.source.leveli = 0.001"),
                   Write("smua.measure.autorangev = 1"),
                   Write("smua.measure.nplc = 5"),
                   Write("smua.measure.delay = 0.1"),
                   Write("smua.measure.rangev = 20"),
                   Write("smua.measure.rangei = 0.001")>>

ParsingOps == NumberGetters \cup FlagGetters
                 \cup {"measure_resistance", "measure_power", "measure_iv"}

\* the call of the last operation whose response is parsed last, when the
\* transport delivered it
LastAnswered ==
    LET q == SelectSeq(calls, LAMBDA c : c.kind = "query")
    IN  q[Len(q)]

\* C9: a transport call that fails is the last call of its operation, which
\* ends with the transport's failure; an operation that parses its response
\* and gets an empty or malformed line ends with ValueError or IndexError
\* and issues nothing after the query that was answered so.
NoRetryNoTranslation ==
    /\ \A k \in 1..Len(calls) :
          ~calls[k].ok => (k = Len(calls) /\ outcome.err = "TransportError")
    /\ outcome.err = "TransportError" => ~calls[Len(calls)].ok
    /\ (/\ lastOp.name \in ParsingOps
        /\ AllOk
        /\ LastAnswered.resp \in {R_nil, R_empty}) =>
          /\ outcome.err \in {"ValueError", "IndexError"}
          /\ calls[Len(calls)] = LastAnswered

MalformedPair ==
    /\ lastOp.name = "measure_iv"
    /\ Len(Sent) = 3
    /\ calls[Len(calls)].resp = R_nil
    /\ outcome.err = "ValueError"

\* C10: the write that enables the output is issued by the output setter
\* called with a truthy flag and by no other operation, so it has been
\* issued only if such a call was made.
OnlySetterEnables ==
    /\ (\E k \in 1..Len(calls) : calls[k].kind = "write" /\ calls[k].cmd = OutputOn) =>
          (lastOp.name = "set_output" /\ Truthy(lastOp.args[1]))
    /\ enableSent => enableRequested

NeverEnabled ==
    /\ phase = "deleted"
    /\ AllOk
    /\ Len(calls) = 3
    /\ ~enableRequested
    /\ ~enableSent

====
